---- MODULE Spec2Model ----
(***************************************************************************)
(* Model of the LinkDrop contract (contract/src/lib.rs).                   *)
(*                                                                         *)
(* The contract keeps one persistent map, `accounts`, from public key to   *)
(* pending balance.  Everything a method does through a Promise (granting  *)
(* or deleting an access key of the contract account, transferring funds,  *)
(* creating an account and calling back) is carried out by the host; the   *)
(* model keeps the host state those promises act on: the function-call     *)
(* access keys of the contract account, the contract's balance and the     *)
(* provisioning pipelines whose callback has not run yet.                  *)
(*                                                                         *)
(* Amounts are scaled: ACCESS_KEY_ALLOWANCE stands for 10^21 yocto.        *)
(* Gas and storage costs are not modelled.                                 *)
(***************************************************************************)
EXTENDS Integers, Sequences, FiniteSets, TLC

VARIABLES
    accounts,     \* LinkDrop.accounts: Map<PublicKey, Balance>
    access_keys,  \* host: function-call access keys of the contract account
    promises,     \* host: dispatched pipelines whose callback is pending
    balance,      \* host: balance of the contract account
    received,     \* history: deposits taken by successful send/send_limited
    sends,        \* history: number of successful send/send_limited calls
    disbursed,    \* history: funds that left towards redeemers
    since,        \* history: per key, what happened since its last removal
    revoked,      \* history: keys whose redemption has completed
    last          \* history: the call that made the last step

vars == <<accounts, access_keys, promises, balance, received, sends,
          disbursed, since, revoked, last>>

-----------------------------------------------------------------------------
(* Bounds of the model *)

MaxSends == 2
MaxInFlight == 1

(* Program constants *)

\* const ACCESS_KEY_ALLOWANCE: u128 = 1_000_000_000_000_000_000_000 (scaled)
ACCESS_KEY_ALLOWANCE == 2

\* u128::MAX, scaled the same way: amounts are u128 and live in 0..U128_MAX
U128_MAX == 15

(* Inputs *)

Keys == {"k1", "k2"}
Deposits == {1, 2, 3}

\* attached deposits large enough for value + deposit to pass u128::MAX
BigDeposits == {3, 14, 15}
CreateDeposits == {3}
CurrentAccount == "linkdrop"
Callers == {"linkdrop", "alice"}
AccountIds == {"bob", "XYZ"}
PromiseIds == 1..MaxInFlight

\* The characters of an account id (env::is_valid_account_id reads bytes).
Chars(id) ==
    CASE id = "bob" -> <<"b", "o", "b">>
      [] id = "XYZ" -> <<"X", "Y", "Z">>
      [] id = "alice" -> <<"a", "l", "i", "c", "e">>
      [] id = "linkdrop" -> <<"l", "i", "n", "k", "d", "r", "o", "p">>
      [] OTHER -> <<>>

LowerAlnum == {"a", "b", "c", "d", "e", "i", "k", "l", "n", "o", "p", "r"}
Separators == {"-", "_", "."}

\* env::is_valid_account_id: 2..64 bytes, lowercase alphanumerics separated
\* by single '-', '_' or '.', no separator first or last.
is_valid_account_id(id) ==
    LET s == Chars(id) IN
    /\ Len(s) >= 2
    /\ Len(s) <= 64
    /\ \A i \in 1..Len(s) : s[i] \in LowerAlnum \cup Separators
    /\ s[1] \notin Separators
    /\ s[Len(s)] \notin Separators
    /\ \A i \in 1..(Len(s) - 1) :
          ~(s[i] \in Separators /\ s[i + 1] \in Separators)

\* method_names of the access key granted by send
SendMethods == <<"claim", "create_account_and_claim", "create_contract_and_claim">>

\* method_names a caller of send_limited may pass (comma separated list)
MethodLists ==
    { <<"create_multisig_and_claim", "on_account_created",
        "on_account_created_and_claimed">> }

\* The methods a comma separated method_names list permits.
MethodSet(names) == {names[i] : i \in 1..Len(names)}

RedemptionOps ==
    {"claim", "create_account_and_claim", "create_multisig_and_claim",
     "create_contract_and_claim"}

-----------------------------------------------------------------------------
(* near_sdk::collections::Map, as a function from every key to an Option: *)
(* Some(value) is <<value>>, None is <<>>                                   *)

EmptyMap(D) == [x \in D |-> <<>>]

\* Map::get
MapGet(m, k) == m[k]

\* Option::unwrap_or
UnwrapOr(opt, default) == IF opt = <<>> THEN default ELSE opt[1]

\* Map::insert: sets or replaces the value at k
MapInsert(m, k, v) == [m EXCEPT ![k] = <<v>>]

\* Map::remove without its return value
MapRemove(m, k) == [m EXCEPT ![k] = <<>>]

Present(m) == {k \in DOMAIN m : m[k] # <<>>}

RECURSIVE SumOver(_, _)
SumOver(m, S) ==
    IF S = {} THEN 0
    ELSE LET k == CHOOSE x \in S : TRUE IN m[k][1] + SumOver(m, S \ {k})

\* the sum of all amounts stored in the registry
RegistrySum == SumOver(accounts, Present(accounts))

-----------------------------------------------------------------------------
(* The record of a call *)

Call(op, pred, signer, key, name, deposit, err, ret, amount, to) ==
    [op |-> op, pred |-> pred, signer |-> signer, key |-> key, name |-> name,
     deposit |-> deposit, err |-> err, ret |-> ret, amount |-> amount, to |-> to,
     methods |-> <<>>, results |-> <<>>]

\* a send_limited/send call with the method_names it grants
WithMethods(call, method_names) == [call EXCEPT !.methods = method_names]

\* a callback with the promise results the host hands it
WithResults(call, results) == [call EXCEPT !.results = results]

\* A panic: the host rolls the call back; only the history records it.
Abort(call) ==
    /\ last' = call
    /\ UNCHANGED <<accounts, access_keys, promises, balance, received, sends,
                   disbursed, since, revoked>>

\* The host lets a transaction signed with a function-call access key of the
\* contract account through only when the key exists and permits the method.
KeyPermits(pk, method) ==
    /\ access_keys[pk] # <<>>
    /\ method \in access_keys[pk][1]

\* A call reaches a method either from another account (any signer key) or
\* as a self-call signed with an access key of the contract account.
CanCall(pred, signer, method) ==
    pred # CurrentAccount \/ KeyPermits(signer, method)

\* a bug: send_limited grants the fixed list of send
AddAccessKeyFixedMethods(keys, pk, methods) ==
    IF keys[pk] # <<>> THEN keys ELSE MapInsert(keys, pk, MethodSet(SendMethods))

\* Promise::add_access_key on the contract account: the host adds the key
\* unless a key with these bytes is already there (the action then fails).
AddAccessKey(keys, pk, methods) ==
    IF keys[pk] # <<>> THEN keys ELSE MapInsert(keys, pk, MethodSet(methods))

\* a bug: every access key on the contract account is deleted
DeleteKeyAll(keys, pk) == [k \in DOMAIN keys |-> <<>>]

\* Promise::delete_key on the contract account
DeleteKey(keys, pk) == MapRemove(keys, pk)

FreeIds == {i \in PromiseIds : promises[i] = <<>>}

NextId == CHOOSE i \in FreeIds : \A j \in FreeIds : i <= j

-----------------------------------------------------------------------------
Init ==
    /\ accounts = EmptyMap(Keys)
    /\ access_keys = EmptyMap(Keys)
    /\ promises = EmptyMap(PromiseIds)
    /\ balance = 0
    /\ received = 0
    /\ sends = 0
    /\ disbursed = 0
    /\ since = [k \in Keys |-> "never"]
    /\ revoked = {}
    /\ last = Call("init", "", "", "", "", 0, "", "", 0, "")

-----------------------------------------------------------------------------
(* send and send_limited *)

\* a bug: the fee is not taken off
SendValueNoFee(value, deposit) == value + deposit

\* u128 arithmetic of a build without overflow checks
WrappingAdd(a, b) == (a + b) % (U128_MAX + 1)
WrappingSub(a, b) == (a - b) % (U128_MAX + 1)

\* value + env::attached_deposit() passes u128::MAX
AddOverflows(value, deposit) == value + deposit > U128_MAX

\* value + env::attached_deposit() - ACCESS_KEY_ALLOWANCE, evaluated left to
\* right on u128
SendValue(value, deposit) ==
    WrappingSub(WrappingAdd(value, deposit), ACCESS_KEY_ALLOWANCE)

\* a bug: >= in place of >
DepositOkOrEqual(deposit) == deposit >= ACCESS_KEY_ALLOWANCE

\* assert!(env::attached_deposit() > ACCESS_KEY_ALLOWANCE)
DepositOk(deposit) == deposit > ACCESS_KEY_ALLOWANCE

\* The body send and send_limited share; they differ in method_names only.
SendBody(op, pred, public_key, deposit, method_names) ==
    IF ~DepositOk(deposit)
    THEN Abort(WithMethods(Call(op, pred, "", public_key, "", deposit,
                    "Attached deposit must be greater than ACCESS_KEY_ALLOWANCE",
                    "", 0, ""), method_names))
    ELSE LET value == UnwrapOr(MapGet(accounts, public_key), 0) IN
         \* The source adds with the plain + operator: a build with overflow
         \* checks panics when the sum passes u128::MAX, a build without
         \* them wraps.  Both builds are outcomes of the call.
         \/ /\ AddOverflows(value, deposit)
            /\ Abort(WithMethods(Call(op, pred, "", public_key, "", deposit,
                            "attempt to add with overflow", "", 0, ""),
                            method_names))
         \/ /\ sends < MaxSends
            /\ accounts' = MapInsert(accounts, public_key, SendValue(value, deposit))
            /\ access_keys' = AddAccessKey(access_keys, public_key, method_names)
            /\ balance' = balance + deposit
            /\ received' = received + deposit
            /\ sends' = sends + 1
            /\ since' = [since EXCEPT ![public_key] =
                            IF @ = "consumed" THEN "resent" ELSE @]
            /\ last' = WithMethods(Call(op, pred, "", public_key, "", deposit, "",
                                        "promise", 0, ""), method_names)
            /\ UNCHANGED <<promises, disbursed, revoked>>

send(public_key, deposit) ==
    SendBody("send", "alice", public_key, deposit, SendMethods)

send_limited(public_key, deposit, method_names) ==
    SendBody("send_limited", "alice", public_key, deposit, method_names)

-----------------------------------------------------------------------------
(* claim and the create_*_and_claim methods *)

\* a bug: the caller check left out
AssertSelfSkipped(pred) == TRUE

\* assert_eq!(env::predecessor_account_id(), env::current_account_id())
assert_self(pred) == pred = CurrentAccount

\* a bug: the entry is read but left in the map
ConsumeKeepsEntry(accts, signer) == accts

\* self.accounts.remove(&env::signer_account_pk()): the map it leaves
Consume(accts, signer) == MapRemove(accts, signer)

\* a bug: the account name is not validated
RedemptionErrorNoNameCheck(pred, signer, account_id, authError) ==
    IF ~(pred = CurrentAccount) THEN authError
    ELSE IF MapGet(accounts, signer) = <<>> THEN "Unexpected public key"
    ELSE ""

\* The checks every redemption method makes before it touches the map:
\* the error it panics with, "" when it goes on.
RedemptionError(pred, signer, account_id, authError) ==
    IF ~assert_self(pred) THEN authError
    ELSE IF ~is_valid_account_id(account_id) THEN "Invalid account id"
    ELSE IF MapGet(accounts, signer) = <<>> THEN "Unexpected public key"
    ELSE ""

claim(pred, signer, account_id) ==
    LET err == RedemptionError(pred, signer, account_id,
                               "Claim only can come from this account") IN
    /\ CanCall(pred, signer, "claim")
    /\ IF err # ""
       THEN Abort(Call("claim", pred, signer, "", account_id, 0, err, "", 0, ""))
       ELSE LET amount == MapGet(accounts, signer)[1] IN
            /\ accounts' = Consume(accounts, signer)
            /\ access_keys' = DeleteKey(access_keys, signer)
            /\ balance' = balance - amount
            /\ disbursed' = disbursed + amount
            /\ since' = [since EXCEPT ![signer] = "consumed"]
            /\ revoked' = revoked \cup {signer}
            /\ last' = Call("claim", pred, signer, "", account_id, 0, "",
                            "promise", amount, account_id)
            /\ UNCHANGED <<promises, received, sends>>

\* The U128 the pipeline hands to on_account_created_and_claimed: amount.into()
CallbackAmount(amount) == amount

\* a bug: the pipeline is dispatched without .then(callback)
ClaimPipelineNoCallback(op, signer, account_id, amount) ==
    [kind |-> "detached", signer |-> signer, account_id |-> account_id,
     transfer |-> amount, amount |-> amount, refund_to |-> ""]

\* The pipeline a create_*_and_claim method dispatches and its callback.
ClaimPipeline(op, signer, account_id, amount) ==
    [kind |-> "claimed", signer |-> signer, account_id |-> account_id,
     transfer |-> amount, amount |-> CallbackAmount(amount), refund_to |-> ""]

\* The body the three create_*_and_claim methods share; they differ in the
\* steps of the pipeline (deploy, init call, kind of access key) only.
CreateAndClaim(op, pred, signer, new_account_id) ==
    LET err == RedemptionError(pred, signer, new_account_id,
                   "Create account and claim only can come from this account") IN
    /\ CanCall(pred, signer, op)
    /\ IF err # ""
       THEN Abort(Call(op, pred, signer, "", new_account_id, 0, err, "", 0, ""))
       ELSE LET amount == MapGet(accounts, signer)[1] IN
            /\ FreeIds # {}
            /\ accounts' = Consume(accounts, signer)
            /\ promises' = MapInsert(promises, NextId,
                               ClaimPipeline(op, signer, new_account_id, amount))
            /\ balance' = balance - amount
            /\ disbursed' = disbursed + amount
            /\ since' = [since EXCEPT ![signer] = "consumed"]
            /\ last' = Call(op, pred, signer, "", new_account_id, 0, "",
                            "promise", amount, new_account_id)
            /\ UNCHANGED <<access_keys, received, sends, revoked>>

create_account_and_claim(pred, signer, new_account_id) ==
    CreateAndClaim("create_account_and_claim", pred, signer, new_account_id)

create_multisig_and_claim(pred, signer, new_account_id) ==
    CreateAndClaim("create_multisig_and_claim", pred, signer, new_account_id)

create_contract_and_claim(pred, signer, new_account_id) ==
    CreateAndClaim("create_contract_and_claim", pred, signer, new_account_id)

-----------------------------------------------------------------------------
(* create_account *)

\* The pipeline create_account dispatches and its callback.
PlainPipeline(pred, account_id, amount) ==
    [kind |-> "plain", signer |-> "",
     account_id |-> account_id, transfer |-> amount, amount |-> amount,
     refund_to |-> pred]

create_account(pred, new_account_id, deposit) ==
    IF ~is_valid_account_id(new_account_id)
    THEN Abort(Call("create_account", pred, "", "", new_account_id, deposit,
                    "Invalid account id", "", 0, ""))
    ELSE LET amount == deposit IN
         /\ FreeIds # {}
         /\ promises' = MapInsert(promises, NextId,
                            PlainPipeline(pred, new_account_id, amount))
         \* the attached deposit comes in, the pipeline's transfer goes out
         /\ balance' = balance + deposit - amount
         /\ last' = Call("create_account", pred, "", "", new_account_id, deposit,
                         "", "promise", amount, new_account_id)
         /\ UNCHANGED <<accounts, access_keys, received, sends, disbursed, since,
                        revoked>>

-----------------------------------------------------------------------------
(* The completion callbacks *)

PromiseResults == {"Successful", "Failed"}

\* assert_eq!(env::promise_results_count(), 1, ...)
ResultsCountOk(results) == Len(results) = 1

\* a bug: the match arms swapped
IsPromiseFailure(results) == results[1] # "Successful"

\* match env::promise_result(0) { Successful(_) => true, _ => false }
is_promise_success(results) == results[1] = "Successful"

\* What a callback does, as a record: the error it panics with ("" if none),
\* the value it returns, the map and the access keys it leaves, and the
\* transfer it makes (to "" if none).
Effect(err, ret, accts, keys, to, amount) ==
    [err |-> err, ret |-> ret, accounts |-> accts, access_keys |-> keys,
     to |-> to, amount |-> amount]

Panic(err) == Effect(err, "", accounts, access_keys, "", 0)

\* a bug: the fee is charged again on the way back
RestoreLessFee(accts, signer, amount) ==
    MapInsert(accts, signer, amount - ACCESS_KEY_ALLOWANCE)

\* In case of failure, put the amount back.
Restore(accts, signer, amount) == MapInsert(accts, signer, amount)

\* a bug: the count of results is not asserted, and a missing result is
\* taken for a failure
OnAccountCreatedAndClaimedNoCount(pred, signer, results, amount) ==
    IF ~assert_self(pred)
    THEN Panic("Callback can only be called from the contract")
    ELSE IF Len(results) >= 1 /\ is_promise_success(results)
    THEN Effect("", "true", accounts, DeleteKey(access_keys, signer), "", 0)
    ELSE Effect("", "false", Restore(accounts, signer, amount), access_keys, "", 0)

\* a bug: the access key is left in place on success
OnAccountCreatedAndClaimedKeepsKey(pred, signer, results, amount) ==
    IF ~assert_self(pred)
    THEN Panic("Callback can only be called from the contract")
    ELSE IF ~ResultsCountOk(results)
    THEN Panic("Contract expected a result on the callback")
    ELSE IF is_promise_success(results)
    THEN Effect("", "true", accounts, access_keys, "", 0)
    ELSE Effect("", "false", Restore(accounts, signer, amount), access_keys, "", 0)

on_account_created_and_claimed(pred, signer, results, amount) ==
    IF ~assert_self(pred)
    THEN Panic("Callback can only be called from the contract")
    ELSE IF ~ResultsCountOk(results)
    THEN Panic("Contract expected a result on the callback")
    ELSE IF is_promise_success(results)
    THEN Effect("", "true", accounts, DeleteKey(access_keys, signer), "", 0)
    ELSE Effect("", "false", Restore(accounts, signer, amount), access_keys, "", 0)

\* a bug: the refund goes to env::predecessor_account_id() of the callback
OnAccountCreatedRefundsCaller(pred, predecessor_account_id, results, amount) ==
    IF ~assert_self(pred)
    THEN Panic("Callback can only be called from the contract")
    ELSE IF ~ResultsCountOk(results)
    THEN Panic("Contract expected a result on the callback")
    ELSE IF is_promise_success(results)
    THEN Effect("", "true", accounts, access_keys, "", 0)
    ELSE Effect("", "false", accounts, access_keys, pred, amount)

on_account_created(pred, predecessor_account_id, results, amount) ==
    IF ~assert_self(pred)
    THEN Panic("Callback can only be called from the contract")
    ELSE IF ~ResultsCountOk(results)
    THEN Panic("Contract expected a result on the callback")
    ELSE IF is_promise_success(results)
    THEN Effect("", "true", accounts, access_keys, "", 0)
    ELSE Effect("", "false", accounts, access_keys, predecessor_account_id, amount)

\* The host finishes the pipeline of a create_*_and_claim call (a failed
\* pipeline returns its transfer to the contract) and runs the callback it
\* was dispatched with, under the signer of the original transaction.
OnAccountCreatedAndClaimed(id, result) ==
    /\ promises[id] # <<>>
    /\ promises[id][1].kind = "claimed"
    /\ LET p == promises[id][1]
           e == on_account_created_and_claimed(CurrentAccount, p.signer,
                                               <<result>>, p.amount)
           returned == IF result = "Successful" THEN 0 ELSE p.transfer
       IN /\ promises' = MapRemove(promises, id)
          /\ balance' = balance + returned
          /\ disbursed' = disbursed - returned
          /\ accounts' = e.accounts
          /\ access_keys' = e.access_keys
          /\ since' = IF e.err = "" /\ e.ret = "false"
                      THEN [since EXCEPT ![p.signer] = "restored"]
                      ELSE since
          /\ revoked' = IF e.err = "" /\ e.ret = "true"
                        THEN revoked \cup {p.signer}
                        ELSE revoked
          /\ last' = WithResults(Call("on_account_created_and_claimed",
                                      CurrentAccount, p.signer, "", p.account_id,
                                      0, e.err, e.ret, p.transfer, ""),
                                 <<result>>)
          /\ UNCHANGED <<received, sends>>

\* The host finishes the pipeline of a create_account call and runs its
\* callback.
OnAccountCreated(id, result) ==
    /\ promises[id] # <<>>
    /\ promises[id][1].kind = "plain"
    /\ LET p == promises[id][1]
           e == on_account_created(CurrentAccount, p.refund_to, <<result>>,
                                   p.amount)
           returned == IF result = "Successful" THEN 0 ELSE p.transfer
       IN /\ promises' = MapRemove(promises, id)
          /\ balance' = balance + returned - e.amount
          /\ accounts' = e.accounts
          /\ access_keys' = e.access_keys
          /\ last' = WithResults(Call("on_account_created", CurrentAccount, "",
                                      "", p.account_id, 0, e.err, e.ret,
                                      e.amount, e.to),
                                 <<result>>)
          /\ UNCHANGED <<received, sends, disbursed, since, revoked>>

\* A transaction that names a callback as its method: no promise result
\* comes with it.
CallOnAccountCreatedAndClaimed(pred, signer, amount) ==
    /\ CanCall(pred, signer, "on_account_created_and_claimed")
    /\ LET e == on_account_created_and_claimed(pred, signer, <<>>, amount) IN
       IF e.err # ""
       THEN Abort(Call("on_account_created_and_claimed", pred, signer, "", "",
                       0, e.err, "", amount, ""))
       ELSE /\ accounts' = e.accounts
            /\ access_keys' = e.access_keys
            /\ since' = IF e.ret = "false"
                        THEN [since EXCEPT ![signer] = "restored"]
                        ELSE since
            /\ revoked' = IF e.ret = "true" THEN revoked \cup {signer}
                          ELSE revoked
            /\ last' = Call("on_account_created_and_claimed", pred, signer, "",
                            "", 0, "", e.ret, amount, "")
            /\ UNCHANGED <<promises, balance, received, sends, disbursed>>

CallOnAccountCreated(pred, signer, predecessor_account_id, amount) ==
    /\ CanCall(pred, signer, "on_account_created")
    /\ LET e == on_account_created(pred, predecessor_account_id, <<>>, amount) IN
       IF e.err # ""
       THEN Abort(Call("on_account_created", pred, signer, "", "", 0, e.err,
                       "", amount, ""))
       ELSE /\ accounts' = e.accounts
            /\ access_keys' = e.access_keys
            /\ balance' = balance - e.amount
            /\ last' = Call("on_account_created", pred, signer, "", "", 0, "",
                            e.ret, e.amount, e.to)
            /\ UNCHANGED <<promises, received, sends, disbursed, since, revoked>>

-----------------------------------------------------------------------------
Next ==
    \/ \E k \in Keys, d \in Deposits : send(k, d)
    \/ \E k \in Keys, d \in Deposits, m \in MethodLists : send_limited(k, d, m)
    \/ \E c \in Callers, k \in Keys, a \in AccountIds : claim(c, k, a)
    \/ \E c \in Callers, k \in Keys, a \in AccountIds :
          create_account_and_claim(c, k, a)
    \/ \E c \in Callers, k \in Keys, a \in AccountIds :
          create_multisig_and_claim(c, k, a)
    \/ \E c \in Callers, k \in Keys, a \in AccountIds :
          create_contract_and_claim(c, k, a)
    \/ \E a \in AccountIds, d \in CreateDeposits : create_account("alice", a, d)
    \/ \E i \in PromiseIds, r \in PromiseResults : OnAccountCreatedAndClaimed(i, r)
    \/ \E i \in PromiseIds, r \in PromiseResults : OnAccountCreated(i, r)
    \/ \E c \in Callers, k \in Keys : CallOnAccountCreatedAndClaimed(c, k, 1)
    \/ \E c \in Callers, k \in Keys : CallOnAccountCreated(c, k, "alice", 1)

Spec == Init /\ [][Next]_vars

\* The host runs the callback of every dispatched pipeline: Promise::then
\* schedules exactly one callback, which the host delivers once the
\* pipeline has finished.
CallbackDelivered(i) ==
    \/ \E r \in PromiseResults : OnAccountCreatedAndClaimed(i, r)
    \/ \E r \in PromiseResults : OnAccountCreated(i, r)

\* The calls that pass the caller and account name checks, with deposits
\* above the fee, and the callbacks the host delivers.
LiveNext ==
    \/ \E k \in Keys : send(k, 3)
    \/ \E k \in Keys, m \in MethodLists : send_limited(k, 3, m)
    \/ \E k \in Keys : claim(CurrentAccount, k, "bob")
    \/ \E k \in Keys : create_account_and_claim(CurrentAccount, k, "bob")
    \/ \E k \in Keys : create_multisig_and_claim(CurrentAccount, k, "bob")
    \/ \E k \in Keys : create_contract_and_claim(CurrentAccount, k, "bob")
    \/ \E d \in CreateDeposits : create_account("alice", "bob", d)
    \/ \E i \in PromiseIds, r \in PromiseResults : OnAccountCreatedAndClaimed(i, r)
    \/ \E i \in PromiseIds, r \in PromiseResults : OnAccountCreated(i, r)

\* Senders that attach deposits near u128::MAX, and direct claims.
OverflowNext ==
    \/ \E k \in Keys, d \in BigDeposits : send(k, d)
    \/ \E k \in Keys, d \in BigDeposits, m \in MethodLists : send_limited(k, d, m)
    \/ \E k \in Keys : claim(CurrentAccount, k, "bob")

OverflowSpec == Init /\ [][OverflowNext]_vars

FairSpec ==
    /\ Init
    /\ [][LiveNext]_vars
    /\ \A i \in PromiseIds : WF_vars(CallbackDelivered(i))

-----------------------------------------------------------------------------
(* Properties *)

SendOps == {"send", "send_limited"}
NameOps == RedemptionOps \cup {"create_account"}
CallbackOps == {"on_account_created", "on_account_created_and_claimed"}

\* the pipelines of create_*_and_claim calls signed with k that are in flight
InFlight(k) ==
    {i \in PromiseIds : /\ promises[i] # <<>>
                        /\ promises[i][1].kind = "claimed"
                        /\ promises[i][1].signer = k}

\* the last step was a callback of a claim-driven pipeline reporting failure
RolledBack(call) ==
    /\ call.op = "on_account_created_and_claimed"
    /\ call.err = ""
    /\ call.ret = "false"

\* C1 - Conservation: in every reachable state the sum of the registry
\* amounts plus the funds disbursed to redeemers (a failed pipeline's funds
\* no longer count once its callback ran) equals the deposits received by
\* send/send_limited minus the allowance fee for each successful send.
Conservation ==
    RegistrySum + disbursed = received - ACCESS_KEY_ALLOWANCE * sends

\* C2 as stated - once a redemption call removed K's deposit, every later
\* redemption call signed with K (a self-call with a valid account name, so
\* that it reaches the registry) aborts with "Unexpected public key" unless
\* a failure callback restored K's deposit in between.
ExactlyOnceAsStated ==
    [][(/\ last'.op \in RedemptionOps
        /\ last'.pred = CurrentAccount
        /\ last'.name = "bob"
        /\ since[last'.signer] \in {"consumed", "resent"})
       => last'.err = "Unexpected public key"]_vars

\* C2 amended - once a redemption call removed K's deposit, every later
\* redemption call signed with K aborts, and with "Unexpected public key"
\* when it passes the caller and the account name checks, unless a failure
\* callback restored K's deposit or a successful send/send_limited
\* registered a deposit for K in between.
ExactlyOnce ==
    [][(/\ last'.op \in RedemptionOps
        /\ since[last'.signer] = "consumed")
       => /\ last'.err # ""
          /\ (last'.pred = CurrentAccount /\ last'.name = "bob")
                => last'.err = "Unexpected public key"]_vars

\* C2 witness: a second redemption signed with the key of an in-flight
\* pipeline was refused for want of an entry.
ExactlyOnceWitness ==
    /\ last.op \in RedemptionOps
    /\ last.err = "Unexpected public key"
    /\ since[last.signer] = "consumed"
    /\ InFlight(last.signer) # {}

\* C3 - Accumulation: a successful send or send_limited for K with deposit d
\* takes K's entry from p (0 if absent) to p + d - fee.
Accumulation ==
    [][(last'.op \in SendOps /\ last'.err = "")
       => accounts'[last'.key] =
             <<UnwrapOr(accounts[last'.key], 0) + last'.deposit
                 - ACCESS_KEY_ALLOWANCE>>]_vars

\* C3 witness: the second of two sends of deposit 3 to one key, the last one
\* by send_limited, leaves (3 - fee) + (3 - fee).
AccumulationWitness ==
    /\ last.op = "send_limited"
    /\ last.err = ""
    /\ sends = 2
    /\ accounts[last.key] = <<(3 - ACCESS_KEY_ALLOWANCE) + (3 - ACCESS_KEY_ALLOWANCE)>>

\* C4 - Rollback value: when the callback of a claim-driven pipeline reports
\* failure, the entry written for the originating key is exactly the amount
\* the redemption call removed (and sent with the pipeline), no fee taken.
RollbackValue ==
    [][RolledBack(last') => accounts'[last'.signer] = <<last'.amount>>]_vars

\* C4 witness: a failure callback has put back a positive amount.
RollbackValueWitness ==
    /\ RolledBack(last)
    /\ last.amount > 0
    /\ accounts[last.signer] = <<last.amount>>

\* C5 as stated - every entry point taking an account name aborts with
\* "Invalid account id" when the name is invalid, leaving the registry
\* unchanged and dispatching no pipeline.
InvalidNameAsStated ==
    [][(last'.op \in NameOps /\ last'.name = "XYZ")
       => /\ last'.err = "Invalid account id"
          /\ accounts' = accounts
          /\ promises' = promises]_vars

\* C5 amended - every entry point taking an account name aborts when the
\* name is invalid, with "Invalid account id" when the call passed the
\* caller check that precedes the name check in the redemption methods
\* (create_account has no caller check); the registry is unchanged and no
\* pipeline is dispatched.
InvalidName ==
    [][(last'.op \in NameOps /\ last'.name = "XYZ")
       => /\ last'.err # ""
          /\ (last'.op = "create_account" \/ last'.pred = CurrentAccount)
                => last'.err = "Invalid account id"
          /\ accounts' = accounts
          /\ promises' = promises]_vars

\* C5 witness: create_account_and_claim with an invalid name was refused
\* while the signer's deposit is still pending.
InvalidNameWitness ==
    /\ last.op = "create_account_and_claim"
    /\ last.name = "XYZ"
    /\ last.err = "Invalid account id"
    /\ accounts[last.signer] # <<>>

\* C6 - Authorization: a redemption method or a callback called by another
\* account than the contract aborts; the registry is untouched, no key is
\* revoked, no pipeline or transfer is dispatched.
Authorization ==
    [][(/\ last'.op \in RedemptionOps \cup CallbackOps
        /\ last'.pred # CurrentAccount)
       => /\ last'.err # ""
          /\ accounts' = accounts
          /\ access_keys' = access_keys
          /\ promises' = promises
          /\ balance' = balance
          /\ disbursed' = disbursed]_vars

\* C6 witness: claim from another account was refused although the signer
\* key has a pending deposit.
AuthorizationWitness ==
    /\ last.op = "claim"
    /\ last.pred = "alice"
    /\ last.err = "Claim only can come from this account"
    /\ accounts[last.signer] # <<>>
    /\ access_keys[last.signer] # <<>>

\* C7 - Failure then retry: when the pipeline of a create_*_and_claim call
\* for K reports failure, K's deposit is back with the original amount and
\* K's access key is still granted, so K can redeem again.
FailureThenRetry ==
    [][RolledBack(last')
       => /\ accounts'[last'.signer] = <<last'.amount>>
          /\ access_keys'[last'.signer] # <<>>]_vars

\* C8 - In-flight exclusion: while a pipeline of K awaits its callback, K
\* is absent from the registry and at most one pipeline of K is in flight.
InFlightExclusion ==
    \A k \in Keys :
        InFlight(k) # {} => (accounts[k] = <<>> /\ Cardinality(InFlight(k)) <= 1)

\* C9 - Redeemability: every key with an entry in the registry holds a
\* granted access key.
Redeemability ==
    \A k \in Keys : accounts[k] # <<>> => access_keys[k] # <<>>

\* C10 - Custodial bound: the sum of the registry amounts never exceeds the
\* contract's balance.
CustodialBound == RegistrySum <= balance

\* C10 witness: after a rollback the registry holds a positive sum and the
\* balance is exactly that sum plus the fees kept.
CustodialBoundWitness ==
    /\ RolledBack(last)
    /\ RegistrySum > 0
    /\ balance = RegistrySum + ACCESS_KEY_ALLOWANCE * sends

\* C11 - Insufficient deposit: send and send_limited abort when the
\* attached deposit is at most the allowance fee, leaving the registry
\* unchanged and granting no access key; with a larger deposit they succeed.
InsufficientDeposit ==
    [][(last'.op \in SendOps)
       => IF last'.deposit <= ACCESS_KEY_ALLOWANCE
          THEN /\ last'.err # ""
               /\ accounts' = accounts
               /\ access_keys' = access_keys
          ELSE last'.err = ""]_vars

\* C11 witness: send_limited with a deposit equal to the fee was refused and
\* the key holds neither an entry nor an access key.
InsufficientDepositWitness ==
    /\ last.op = "send_limited"
    /\ last.deposit = ACCESS_KEY_ALLOWANCE
    /\ last.err = "Attached deposit must be greater than ACCESS_KEY_ALLOWANCE"
    /\ accounts[last.key] = <<>>
    /\ access_keys[last.key] = <<>>

\* C12 - Direct claim: a successful claim(target) signed with K removes K's
\* entry, transfers exactly the removed amount to target, revokes K's access
\* key in the same call and registers no callback; K has no pipeline in
\* flight then, so that nothing can restore K afterwards.
DirectClaim ==
    [][(last'.op = "claim" /\ last'.err = "")
       => /\ accounts[last'.signer] # <<>>
          /\ accounts'[last'.signer] = <<>>
          /\ last'.amount = accounts[last'.signer][1]
          /\ last'.to = last'.name
          /\ balance' = balance - last'.amount
          /\ access_keys'[last'.signer] = <<>>
          /\ promises' = promises
          /\ InFlight(last'.signer) = {}]_vars

\* C13 as stated - REVOKED is terminal: once a claim-driven pipeline for K
\* has completed successfully, or claim has redeemed K, K never has a pending
\* deposit in the registry again.
RevokedTerminal ==
    \A k \in revoked : accounts[k] = <<>>

\* C13 amended - once K's redemption has completed, K has a pending deposit
\* only if a successful send/send_limited for K made after the redemption
\* call removed K's deposit, or the failure callback of another pipeline of
\* K, put it there.
RevokedRefunded ==
    [][\A k \in Keys :
          (k \in revoked' /\ accounts'[k] # <<>>)
          => \/ k \in revoked /\ accounts[k] # <<>>
             \/ last'.op \in SendOps /\ last'.err = "" /\ last'.key = k
             \/ RolledBack(last') /\ last'.signer = k
             \/ k \notin revoked /\ since'[k] \in {"resent", "restored"}]_vars

\* C13 witness: a key redeemed by claim holds a deposit again after a send.
RevokedRefundedWitness ==
    /\ last.op \in SendOps
    /\ last.err = ""
    /\ last.key \in revoked
    /\ since[last.key] = "resent"
    /\ accounts[last.key] # <<>>
    /\ InFlight(last.key) = {}

\* the last step was the callback of a pipeline of k and left k either
\* restored to the registry or without its access key
Resolved(k) ==
    /\ last.op = "on_account_created_and_claimed"
    /\ last.signer = k
    /\ last.results # <<>>
    /\ \/ last.ret = "false" /\ accounts[k] # <<>>
       \/ last.ret = "true" /\ access_keys[k] = <<>>

\* C14 - Eventual resolution: when the host delivers the callback of every
\* dispatched pipeline, each pipeline a create_*_and_claim call signed with
\* K dispatched is eventually finished with K either restored to the
\* registry or stripped of its access key.
EventualResolution ==
    \A i \in PromiseIds, k \in Keys :
        (promises[i] # <<>> /\ promises[i][1].signer = k)
           ~> (promises[i] = <<>> /\ Resolved(k))

\* C14 witness: the callback of a pipeline has run and restored its key.
EventualResolutionWitness ==
    /\ \E k \in Keys : Resolved(k) /\ last.ret = "false" /\ InFlight(k) = {}
    /\ \A i \in PromiseIds : promises[i] = <<>>

\* C15 - Plain account creation: create_account leaves the registry alone
\* and hands its caller and the attached amount to the callback;
\* on_account_created transfers exactly that amount back to that caller when
\* the pipeline failed and transfers and changes nothing when it succeeded;
\* the registry is unchanged in both cases.
PlainCreation ==
    [][/\ (last'.op = "create_account")
          => /\ accounts' = accounts
             /\ access_keys' = access_keys
             /\ last'.err = ""
                => \E i \in PromiseIds :
                      /\ promises[i] = <<>>
                      /\ promises'[i] # <<>>
                      /\ promises'[i][1].refund_to = last'.pred
                      /\ promises'[i][1].amount = last'.deposit
                      /\ promises'[i][1].transfer = last'.deposit
       /\ (last'.op = "on_account_created" /\ last'.results # <<>>)
          => \E i \in PromiseIds :
                /\ promises[i] # <<>>
                /\ promises'[i] = <<>>
                /\ accounts' = accounts
                /\ access_keys' = access_keys
                /\ IF last'.results = <<"Successful">>
                   THEN /\ last'.ret = "true"
                        /\ last'.to = ""
                        /\ last'.amount = 0
                        /\ balance' = balance
                   ELSE /\ last'.ret = "false"
                        /\ last'.to = promises[i][1].refund_to
                        /\ last'.amount = promises[i][1].transfer]_vars

\* C15 witness: the callback of a failed create_account pipeline has sent
\* the attached 3 back to alice while a deposit is pending in the registry.
PlainCreationWitness ==
    /\ last.op = "on_account_created"
    /\ last.results = <<"Failed">>
    /\ last.ret = "false"
    /\ last.to = "alice"
    /\ last.amount = 3
    /\ RegistrySum > 0

RestoreNeverOverwrites ==
    [][RolledBack(last') => accounts[last'.signer] = <<>>]_vars

\* C19 - Forged or malformed completion: a completion callback that does
\* not come with exactly one pipeline result aborts; it changes no registry
\* entry, revokes no access key and transfers nothing.  A transaction that
\* calls a callback directly, signed with a key whose send_limited method
\* list names the callback, comes with zero results.
ForgedCompletion ==
    [][(last'.op \in CallbackOps /\ Len(last'.results) # 1)
       => /\ last'.err # ""
          /\ accounts' = accounts
          /\ access_keys' = access_keys
          /\ balance' = balance
          /\ promises' = promises]_vars

\* C19 witness: the contract called on_account_created_and_claimed on itself
\* under a key whose method list names it, with no result, and the call
\* got past the caller check to the assertion on the count of results.
ForgedCompletionWitness ==
    /\ last.op = "on_account_created_and_claimed"
    /\ last.pred = CurrentAccount
    /\ last.results = <<>>
    /\ last.err = "Contract expected a result on the callback"
    /\ access_keys[last.signer] # <<>>
    /\ "on_account_created_and_claimed" \in access_keys[last.signer][1]

\* C20 - Success finalization: when the callback of a claim-driven pipeline
\* reports success it deletes the access key of the signer's key, leaves
\* the registry as it was and returns true; on failure it returns false and
\* deletes no access key.
SuccessFinalization ==
    [][(last'.op = "on_account_created_and_claimed" /\ last'.err = "")
       => IF last'.results = <<"Successful">>
          THEN /\ last'.ret = "true"
               /\ access_keys'[last'.signer] = <<>>
               /\ \A k \in Keys \ {last'.signer} :
                     access_keys'[k] = access_keys[k]
               /\ accounts' = accounts
          ELSE /\ last'.ret = "false"
               /\ access_keys' = access_keys]_vars

\* C20 witness: a claim-driven pipeline has succeeded and its callback has
\* deleted the signer's access key.
SuccessFinalizationWitness ==
    /\ last.op = "on_account_created_and_claimed"
    /\ last.results = <<"Successful">>
    /\ last.ret = "true"
    /\ access_keys[last.signer] = <<>>

\* the key a call is made with: the public_key argument of send and
\* send_limited, the signer's key of a redemption or a callback
OwnKey(call) == IF call.op \in SendOps THEN call.key ELSE call.signer

\* C21 - Credential isolation: every operation changes at most the registry
\* entry and the access key of the one key it is called with (public_key
\* for send and send_limited, the signer's key for redemptions and
\* callbacks); the entries and access keys of all other keys are unchanged.
CredentialIsolation ==
    [][\A k \in Keys \ {OwnKey(last')} :
          /\ accounts'[k] = accounts[k]
          /\ access_keys'[k] = access_keys[k]]_vars

\* C21 witness: a redemption has removed the entry of the signer's key and
\* revoked its access key while another key holds an entry and an access
\* key.
CredentialIsolationWitness ==
    /\ last.op = "claim"
    /\ last.err = ""
    /\ accounts[last.signer] = <<>>
    /\ access_keys[last.signer] = <<>>
    /\ \E k \in Keys \ {last.signer} :
          accounts[k] # <<>> /\ access_keys[k] # <<>>

====
